---- MODULE Spec2Model ----
(***************************************************************************)
(* Model of the source-control provider error classifier                   *)
(* (packages/control-plane/src/source-control/errors.ts) and of the GitHub *)
(* provider operations that consume it (providers/github-provider.ts).     *)
(*                                                                         *)
(* Strings are sequences of one-character strings, so that toLowerCase and *)
(* includes are computed and not assumed.  An optional value (status?,     *)
(* httpStatus?, cause?, config.labels?) is <<>> when undefined and <<v>>   *)
(* when present.                                                           *)
(***************************************************************************)
EXTENDS Integers, Sequences, FiniteSets, TLC

\* ------------------------------------------------------------------ bounds
MinStatus == 100
MaxStatus == 599
MaxLabels == 2
MaxReviewers == 2

\* ------------------------------------------------------- string primitives
UpperToLower ==
  ("A" :> "a") @@ ("B" :> "b") @@ ("C" :> "c") @@ ("D" :> "d") @@
  ("E" :> "e") @@ ("F" :> "f") @@ ("G" :> "g") @@ ("H" :> "h") @@
  ("I" :> "i") @@ ("J" :> "j") @@ ("K" :> "k") @@ ("L" :> "l") @@
  ("M" :> "m") @@ ("N" :> "n") @@ ("O" :> "o") @@ ("P" :> "p") @@
  ("Q" :> "q") @@ ("R" :> "r") @@ ("S" :> "s") @@ ("T" :> "t") @@
  ("U" :> "u") @@ ("V" :> "v") @@ ("W" :> "w") @@ ("X" :> "x") @@
  ("Y" :> "y") @@ ("Z" :> "z")

\* String.prototype.toLowerCase
toLowerCase(s) ==
  [i \in 1..Len(s) |-> IF s[i] \in DOMAIN UpperToLower THEN UpperToLower[s[i]] ELSE s[i]]

\* String.prototype.includes: sub occurs in s at some offset
includes(s, sub) ==
  \E i \in 0..(Len(s) - Len(sub)) : SubSeq(s, i + 1, i + Len(sub)) = sub

DigitChar == <<"0", "1", "2", "3", "4", "5", "6", "7", "8", "9">>

RECURSIVE NumberToString(_)
\* template-literal conversion of a non-negative integer
NumberToString(n) ==
  IF n < 10 THEN <<DigitChar[n + 1]>>
  ELSE NumberToString(n \div 10) \o <<DigitChar[(n % 10) + 1]>>

\* ------------------------------------------------------------ text values
S_fetch_failed == <<"f","e","t","c","h"," ","f","a","i","l","e","d">>
S_etimedout == <<"e","t","i","m","e","d","o","u","t">>
S_econnreset == <<"e","c","o","n","n","r","e","s","e","t">>
S_econnrefused == <<"e","c","o","n","n","r","e","f","u","s","e","d">>
S_network == <<"n","e","t","w","o","r","k">>
S_timeout == <<"t","i","m","e","o","u","t">>
S_aborted == <<"a","b","o","r","t","e","d">>

\* the substrings tested by isTransientNetworkError, in the order tested
TransientSubstrings ==
  <<S_fetch_failed, S_etimedout, S_econnreset, S_econnrefused,
    S_network, S_timeout, S_aborted>>

M_TypeErrorFetchFailed ==
  <<"T","y","p","e","E","r","r","o","r",":"," ","F","e","t","c","h"," ","F","a","i","l","e","d">>
M_connectETIMEDOUT == <<"c","o","n","n","e","c","t"," ","E","T","I","M","E","D","O","U","T">>
M_readECONNRESET == <<"r","e","a","d"," ","E","C","O","N","N","R","E","S","E","T">>
M_ECONNREFUSED == <<"E","C","O","N","N","R","E","F","U","S","E","D">>
M_NetworkError == <<"N","e","t","w","o","r","k"," ","e","r","r","o","r">>
M_subnetworks == <<"s","u","b","n","e","t","w","o","r","k","s">>
M_RequestTimeout == <<"R","e","q","u","e","s","t"," ","T","i","m","e","o","u","t">>
M_TIMEOUT == <<"T","I","M","E","O","U","T">>
M_OperationAborted == <<"o","p"," ","w","a","s"," ","A","b","o","r","t","e","d">>
M_invalid_credentials ==
  <<"i","n","v","a","l","i","d"," ","c","r","e","d","e","n","t","i","a","l","s">>
M_invalid_token == <<"i","n","v","a","l","i","d"," ","t","o","k","e","n">>
M_time_out == <<"t","i","m","e"," ","o","u","t">>
M_abort == <<"a","b","o","r","t">>
M_net_work == <<"n","e","t","-","w","o","r","k">>
M_empty == <<>>

\* messages an underlying Error may carry
ErrorMessages ==
  { S_fetch_failed, S_etimedout, S_econnreset, S_econnrefused, S_network,
    S_timeout, S_aborted,
    M_TypeErrorFetchFailed, M_connectETIMEDOUT, M_readECONNRESET,
    M_ECONNREFUSED, M_NetworkError, M_subnetworks, M_RequestTimeout,
    M_TIMEOUT, M_OperationAborted,
    M_invalid_credentials, M_invalid_token, M_time_out, M_abort,
    M_net_work, M_empty }

\* a thrown / caught value of type unknown
ErrorValue(m) == [class |-> "Error", text |-> m]
StringValue(s) == [class |-> "string", text |-> s]
NullValue == [class |-> "null", text |-> <<>>]
UndefinedValue == [class |-> "undefined", text |-> <<>>]

RawValues ==
  { ErrorValue(m) : m \in ErrorMessages } \cup
  { StringValue(S_timeout), StringValue(M_invalid_token), NullValue, UndefinedValue }

\* error instanceof Error
instanceofError(error) == error.class = "Error"

\* HTTP status codes a response may carry
Statuses == MinStatus..MaxStatus

\* the optional status argument of fromFetchError
OptStatuses == {<<>>} \cup { <<s>> : s \in Statuses }


\* ------------------------------------------------------------- errors.ts
\* new SourceControlProviderError(message, errorType, httpStatus?, cause?)
SourceControlProviderError(message, errorType, httpStatus, cause) ==
  [class |-> "SourceControlProviderError", message |-> message,
   errorType |-> errorType, httpStatus |-> httpStatus, cause |-> cause]

isTransientStatus_All5xx(status) ==
  status = 429 \/ status >= 500

\* 429 = rate limited, 502/503/504 = gateway errors
isTransientStatus(status) ==
  status = 429 \/ status = 502 \/ status = 503 \/ status = 504

isTransientNetworkError_CaseSensitive(error) ==
  IF instanceofError(error)
  THEN LET message == error.text
       IN  \/ includes(message, S_fetch_failed)
           \/ includes(message, S_etimedout)
           \/ includes(message, S_econnreset)
           \/ includes(message, S_econnrefused)
           \/ includes(message, S_network)
           \/ includes(message, S_timeout)
           \/ includes(message, S_aborted)
  ELSE FALSE

isTransientNetworkError(error) ==
  IF instanceofError(error)
  THEN LET message == toLowerCase(error.text)
       IN  \/ includes(message, S_fetch_failed)
           \/ includes(message, S_etimedout)
           \/ includes(message, S_econnreset)
           \/ includes(message, S_econnrefused)
           \/ includes(message, S_network)
           \/ includes(message, S_timeout)
           \/ includes(message, S_aborted)
  ELSE FALSE

\* error instanceof Error ? error : undefined
causeOf(error) == IF instanceofError(error) THEN <<error>> ELSE <<>>

fromFetchError_MessageToo(message, error, status) ==
  IF status # <<>>
  THEN LET errorType ==
             IF isTransientStatus(status[1]) \/ isTransientNetworkError(error)
             THEN "transient" ELSE "permanent"
       IN  SourceControlProviderError(message, errorType, status, causeOf(error))
  ELSE LET errorType ==
             IF isTransientNetworkError(error) THEN "transient" ELSE "permanent"
       IN  SourceControlProviderError(message, errorType, <<>>, causeOf(error))

fromFetchError_NoDefault(message, error, status) ==
  IF status # <<>>
  THEN LET errorType ==
             IF isTransientStatus(status[1]) THEN "transient" ELSE "permanent"
       IN  SourceControlProviderError(message, errorType, status, causeOf(error))
  ELSE LET errorType ==
             IF ~instanceofError(error) THEN "undefined"
             ELSE IF isTransientNetworkError(error) THEN "transient" ELSE "permanent"
       IN  SourceControlProviderError(message, errorType, <<>>, causeOf(error))

fromFetchError(message, error, status) ==
  IF status # <<>>
  THEN LET errorType ==
             IF isTransientStatus(status[1]) THEN "transient" ELSE "permanent"
       IN  SourceControlProviderError(message, errorType, status, causeOf(error))
  ELSE LET errorType ==
             IF isTransientNetworkError(error) THEN "transient" ELSE "permanent"
       IN  SourceControlProviderError(message, errorType, <<>>, causeOf(error))

\* --------------------------------------------------- github-provider.ts
P_FailedToGetRepository == <<"F","a","i","l","e","d"," ","t","o"," ","g","e","t"," ","r","e","p","o","s","i","t","o","r","y",":"," ">>
P_FailedToCreatePR == <<"F","a","i","l","e","d"," ","t","o"," ","c","r","e","a","t","e"," ","P","R",":"," ">>
P_FailedToGenerateToken == <<"F","a","i","l","e","d"," ","t","o"," ","g","e","n","e","r","a","t","e"," ","G","i","t","H","u","b"," ","A","p","p"," ","t","o","k","e","n",":"," ">>
P_NotConfigured == <<"G","i","t","H","u","b"," ","A","p","p"," ","n","o","t"," ","c","o","n","f","i","g","u","r","e","d"," ","-"," ","c","a","n","n","o","t"," ","g","e","n","e","r","a","t","e"," ","p","u","s","h"," ","a","u","t","h">>
P_null == <<"n","u","l","l">>
P_undefined == <<"u","n","d","e","f","i","n","e","d">>

\* response.ok
OkStatuses == { s \in Statuses : 200 <= s /\ s <= 299 }
NotOkStatuses == Statuses \ OkStatuses

\* bodies a non-OK response may carry (response.text())
BodyTexts == { M_invalid_credentials, M_RequestTimeout, M_empty }

\* message arguments used for direct calls of fromFetchError
CallMessages == { P_FailedToCreatePR, M_empty }


\* String(error) / error.message in the token-failure template literal
errorText(error) ==
  IF instanceofError(error) THEN error.text
  ELSE IF error.class = "string" THEN error.text
  ELSE IF error.class = "null" THEN P_null
  ELSE P_undefined

\* throw of getRepository on a non-OK response
getRepositoryFailure(status, text) ==
  fromFetchError(P_FailedToGetRepository \o NumberToString(status) \o <<" ">> \o text,
                 ErrorValue(text), <<status>>)

\* throw of createPullRequest on a non-OK response
createPullRequestFailure(status, text) ==
  fromFetchError(P_FailedToCreatePR \o NumberToString(status) \o <<" ">> \o text,
                 ErrorValue(text), <<status>>)

\* throw of generatePushAuth when this.appConfig is missing
NotConfiguredError ==
  SourceControlProviderError(P_NotConfigured, "permanent", <<>>, <<>>)

mintFailure_AlwaysPermanent(error) ==
  SourceControlProviderError(P_FailedToGenerateToken \o errorText(error),
                             "permanent", <<>>, causeOf(error))

\* catch block of generatePushAuth: no status is passed
mintFailure(error) ==
  fromFetchError(P_FailedToGenerateToken \o errorText(error), error, <<>>)

mapState_MergedFirst(d) ==
  IF d.merged THEN "merged"
  ELSE IF d.draft THEN "draft"
  ELSE IF d.state = "open" THEN "open"
  ELSE IF d.state = "closed" THEN "closed"
  ELSE "open"

\* map GitHub (draft, merged, state) to CreatePullRequestResult["state"]
mapState(d) ==
  IF d.draft THEN "draft"
  ELSE IF d.merged THEN "merged"
  ELSE IF d.state = "open" THEN "open"
  ELSE IF d.state = "closed" THEN "closed"
  ELSE "open"

\* the pull-request result built from the response body
pullRequestResult(d) ==
  [class |-> "CreatePullRequestResult", id |-> d.number, state |-> mapState(d)]

LabelNames == {"bug"}
ReviewerNames == {"octocat"}

\* config.labels?: string[]
OptLabels ==
  {<<>>} \cup { <<l>> : l \in UNION { [1..n -> LabelNames] : n \in 0..MaxLabels } }

\* config.reviewers?: string[]
OptReviewers ==
  {<<>>} \cup { <<l>> : l \in UNION { [1..n -> ReviewerNames] : n \in 0..MaxReviewers } }

Configs == [labels : OptLabels, reviewers : OptReviewers]

shouldAddLabels_WhenDefined(cfg) == cfg.labels # <<>>

\* config.labels && config.labels.length > 0
shouldAddLabels(cfg) == cfg.labels # <<>> /\ Len(cfg.labels[1]) > 0

\* config.reviewers && config.reviewers.length > 0
shouldRequestReviewers(cfg) == cfg.reviewers # <<>> /\ Len(cfg.reviewers[1]) > 0

\* body of an OK pull-request creation response
PullData ==
  [number : {1, 2}, draft : BOOLEAN, merged : BOOLEAN,
   state : {"open", "closed", "locked", ""}]

\* what a best-effort HTTP call can do: OK response, non-OK response, throw
BestEffortKinds == {"ok", "notOk", "threw"}

addLabels_Rethrow(kind) ==
  [threw |-> kind = "threw", warned |-> kind # "ok"]

\* addLabels: every failure is logged with console.warn and swallowed
addLabels(kind) ==
  [threw |-> FALSE, warned |-> kind # "ok"]

\* requestReviewers: every failure is logged with console.warn and swallowed
requestReviewers(kind) ==
  [threw |-> FALSE, warned |-> kind # "ok"]

Tokens == {<<"g","h","s","_","1">>, <<"g","h","s","_","2">>}

\* ---------------------------------------------------------------- state
VARIABLES
  appConfig,  \* this.appConfig is set
  pc,         \* position of the running operation
  op,         \* the operation that was called
  args,       \* arguments of a direct fromFetchError call
  config,     \* CreatePullRequestConfig of the running createPullRequest
  data,       \* body of the OK pull-request response
  calls,      \* remote calls made and their outcomes, in order
  warnings,   \* number of console.warn calls
  origin,     \* status of the non-OK response behind the failure, if any
  outcome     \* what the operation gave its caller

vars == <<appConfig, pc, op, args, config, data, calls, warnings, origin, outcome>>

NoArgs == [message |-> <<>>, error |-> UndefinedValue, status |-> <<>>]
NoConfig == [labels |-> <<>>, reviewers |-> <<>>]
NoData == [number |-> 0, draft |-> FALSE, merged |-> FALSE, state |-> ""]
NoValue == [class |-> "none"]
Pending == [kind |-> "none", value |-> NoValue]
Returned(v) == [kind |-> "returned", value |-> v]
Thrown(v) == [kind |-> "thrown", value |-> v]
Event(call, ev) == [call |-> call, ev |-> ev]

\* new GitHubSourceControlProvider(config)
Init ==
  /\ appConfig \in BOOLEAN
  /\ pc = "idle"
  /\ op = "none"
  /\ args = NoArgs
  /\ config = NoConfig
  /\ data = NoData
  /\ calls = <<>>
  /\ warnings = 0
  /\ origin = <<>>
  /\ outcome = Pending


\* -------------------------------------------------------------- actions
\* a caller invokes SourceControlProviderError.fromFetchError directly
FromFetchError(message, error, status) ==
  /\ pc = "idle"
  /\ op' = "fromFetchError"
  /\ args' = [message |-> message, error |-> error, status |-> status]
  /\ outcome' = Returned(fromFetchError(message, error, status))
  /\ pc' = "done"
  /\ UNCHANGED <<appConfig, config, data, calls, warnings, origin>>

\* getRepository up to the await of fetchWithTimeout
GetRepository_Call ==
  /\ pc = "idle"
  /\ op' = "getRepository"
  /\ calls' = <<Event("repos", "start")>>
  /\ pc' = "getRepository.fetch"
  /\ UNCHANGED <<appConfig, args, config, data, warnings, origin, outcome>>

\* the awaited call rejects: nothing in getRepository catches it
GetRepository_Throws(error) ==
  /\ pc = "getRepository.fetch"
  /\ calls' = Append(calls, Event("repos", "threw"))
  /\ outcome' = Thrown(error)
  /\ pc' = "done"
  /\ UNCHANGED <<appConfig, op, args, config, data, warnings, origin>>

\* the response is not OK
GetRepository_NotOk(status, text) ==
  /\ pc = "getRepository.fetch"
  /\ calls' = Append(calls, Event("repos", "notOk"))
  /\ origin' = <<status>>
  /\ outcome' = Thrown(getRepositoryFailure(status, text))
  /\ pc' = "done"
  /\ UNCHANGED <<appConfig, op, args, config, data, warnings>>

\* the response is OK: its body is mapped to RepositoryInfo
GetRepository_Ok(isPrivate) ==
  /\ pc = "getRepository.fetch"
  /\ calls' = Append(calls, Event("repos", "ok"))
  /\ outcome' = Returned([class |-> "RepositoryInfo", isPrivate |-> isPrivate])
  /\ pc' = "done"
  /\ UNCHANGED <<appConfig, op, args, config, data, warnings, origin>>

\* createPullRequest up to the await of the creation request
CreatePullRequest_Call(cfg) ==
  /\ pc = "idle"
  /\ op' = "createPullRequest"
  /\ config' = cfg
  /\ calls' = <<Event("pulls", "start")>>
  /\ pc' = "createPullRequest.fetch"
  /\ UNCHANGED <<appConfig, args, data, warnings, origin, outcome>>

\* the awaited creation request rejects: nothing in createPullRequest catches it
CreatePullRequest_Throws(error) ==
  /\ pc = "createPullRequest.fetch"
  /\ calls' = Append(calls, Event("pulls", "threw"))
  /\ outcome' = Thrown(error)
  /\ pc' = "done"
  /\ UNCHANGED <<appConfig, op, args, config, data, warnings, origin>>

\* the creation response is not OK
CreatePullRequest_NotOk(status, text) ==
  /\ pc = "createPullRequest.fetch"
  /\ calls' = Append(calls, Event("pulls", "notOk"))
  /\ origin' = <<status>>
  /\ outcome' = Thrown(createPullRequestFailure(status, text))
  /\ pc' = "done"
  /\ UNCHANGED <<appConfig, op, args, config, data, warnings>>

\* the creation response is OK: build the result, then start the label call,
\* else the reviewer call, else return
CreatePullRequest_Ok(d) ==
  /\ pc = "createPullRequest.fetch"
  /\ data' = d
  /\ IF shouldAddLabels(config)
     THEN /\ calls' = calls \o <<Event("pulls", "ok"), Event("labels", "start")>>
          /\ pc' = "addLabels.fetch"
          /\ outcome' = outcome
     ELSE IF shouldRequestReviewers(config)
     THEN /\ calls' = calls \o <<Event("pulls", "ok"), Event("reviewers", "start")>>
          /\ pc' = "requestReviewers.fetch"
          /\ outcome' = outcome
     ELSE /\ calls' = Append(calls, Event("pulls", "ok"))
          /\ pc' = "done"
          /\ outcome' = Returned(pullRequestResult(d))
  /\ UNCHANGED <<appConfig, op, args, config, warnings, origin>>

\* the label call ends (kind), addLabels handles it, createPullRequest goes on
AddLabels_Done(kind, error) ==
  /\ pc = "addLabels.fetch"
  /\ LET r == addLabels(kind)
     IN  /\ warnings' = IF r.warned THEN warnings + 1 ELSE warnings
         /\ IF r.threw
            THEN /\ calls' = Append(calls, Event("labels", kind))
                 /\ pc' = "done"
                 /\ outcome' = Thrown(error)
            ELSE IF shouldRequestReviewers(config)
            THEN /\ calls' = calls \o <<Event("labels", kind), Event("reviewers", "start")>>
                 /\ pc' = "requestReviewers.fetch"
                 /\ outcome' = outcome
            ELSE /\ calls' = Append(calls, Event("labels", kind))
                 /\ pc' = "done"
                 /\ outcome' = Returned(pullRequestResult(data))
  /\ UNCHANGED <<appConfig, op, args, config, data, origin>>

\* the reviewer call ends (kind), requestReviewers handles it, the result is returned
RequestReviewers_Done(kind, error) ==
  /\ pc = "requestReviewers.fetch"
  /\ LET r == requestReviewers(kind)
     IN  /\ warnings' = IF r.warned THEN warnings + 1 ELSE warnings
         /\ calls' = Append(calls, Event("reviewers", kind))
         /\ pc' = "done"
         /\ outcome' = IF r.threw THEN Thrown(error)
                       ELSE Returned(pullRequestResult(data))
  /\ UNCHANGED <<appConfig, op, args, config, data, origin>>

\* generatePushAuth without appConfig
GeneratePushAuth_NotConfigured ==
  /\ pc = "idle"
  /\ ~appConfig
  /\ op' = "generatePushAuth"
  /\ outcome' = Thrown(NotConfiguredError)
  /\ pc' = "done"
  /\ UNCHANGED <<appConfig, args, config, data, calls, warnings, origin>>

\* generatePushAuth with appConfig, up to the await of generateInstallationToken
GeneratePushAuth_Call ==
  /\ pc = "idle"
  /\ appConfig
  /\ op' = "generatePushAuth"
  /\ calls' = <<Event("installationToken", "start")>>
  /\ pc' = "generatePushAuth.mint"
  /\ UNCHANGED <<appConfig, args, config, data, warnings, origin, outcome>>

\* the minting call resolves with a token
GeneratePushAuth_Minted(token) ==
  /\ pc = "generatePushAuth.mint"
  /\ calls' = Append(calls, Event("installationToken", "ok"))
  /\ outcome' = Returned([class |-> "GitPushAuthContext", authType |-> "app",
                          token |-> token])
  /\ pc' = "done"
  /\ UNCHANGED <<appConfig, op, args, config, data, warnings, origin>>

\* the minting call rejects with error; responseStatus is the status of the
\* non-OK response behind the rejection, <<>> when there was no response
GeneratePushAuth_MintFailed(error, responseStatus) ==
  /\ pc = "generatePushAuth.mint"
  /\ calls' = Append(calls, Event("installationToken",
                                  IF responseStatus = <<>> THEN "threw" ELSE "notOk"))
  /\ origin' = responseStatus
  /\ outcome' = Thrown(mintFailure(error))
  /\ pc' = "done"
  /\ UNCHANGED <<appConfig, op, args, config, data, warnings>>

\* the guards are repeated in front of the quantifiers so that a disabled
\* action is dismissed before its inputs are enumerated
Next ==
  \/ /\ pc = "idle"
     /\ \E m \in CallMessages, e \in RawValues, s \in OptStatuses : FromFetchError(m, e, s)
  \/ GetRepository_Call
  \/ /\ pc = "getRepository.fetch"
     /\ \E e \in RawValues : GetRepository_Throws(e)
  \/ /\ pc = "getRepository.fetch"
     /\ \E s \in NotOkStatuses, t \in BodyTexts : GetRepository_NotOk(s, t)
  \/ /\ pc = "getRepository.fetch"
     /\ \E b \in BOOLEAN : GetRepository_Ok(b)
  \/ /\ pc = "idle"
     /\ \E c \in Configs : CreatePullRequest_Call(c)
  \/ /\ pc = "createPullRequest.fetch"
     /\ \E e \in RawValues : CreatePullRequest_Throws(e)
  \/ /\ pc = "createPullRequest.fetch"
     /\ \E s \in NotOkStatuses, t \in BodyTexts : CreatePullRequest_NotOk(s, t)
  \/ /\ pc = "createPullRequest.fetch"
     /\ \E d \in PullData : CreatePullRequest_Ok(d)
  \/ /\ pc = "addLabels.fetch"
     /\ \E k \in BestEffortKinds, e \in RawValues : AddLabels_Done(k, e)
  \/ /\ pc = "requestReviewers.fetch"
     /\ \E k \in BestEffortKinds, e \in RawValues : RequestReviewers_Done(k, e)
  \/ GeneratePushAuth_NotConfigured
  \/ GeneratePushAuth_Call
  \/ /\ pc = "generatePushAuth.mint"
     /\ \E t \in Tokens : GeneratePushAuth_Minted(t)
  \/ /\ pc = "generatePushAuth.mint"
     /\ \E e \in RawValues, s \in {<<>>} \cup { <<x>> : x \in NotOkStatuses } :
          GeneratePushAuth_MintFailed(e, s)

Spec == Init /\ [][Next]_vars


\* ---------------------------------------------------------- properties
Logged(call, ev) == \E i \in 1..Len(calls) : calls[i] = Event(call, ev)
Classified == pc = "done" /\ op = "fromFetchError"
ProviderOps == {"getRepository", "createPullRequest", "generatePushAuth"}
ErrorTypes == {"transient", "permanent"}

\* the Error messages of ErrorMessages that hold one of the seven substrings
\* in some letter case
ExpectedTransientMessages ==
  { S_fetch_failed, S_etimedout, S_econnreset, S_econnrefused, S_network,
    S_timeout, S_aborted,
    M_TypeErrorFetchFailed, M_connectETIMEDOUT, M_readECONNRESET,
    M_ECONNREFUSED, M_NetworkError, M_subnetworks, M_RequestTimeout,
    M_TIMEOUT, M_OperationAborted }

\* C1: with a status s, fromFetchError gives errorType transient when s is one
\* of 429, 502, 503, 504 and permanent for every other status.
C1_StatusRule ==
  (Classified /\ args.status # <<>>) =>
    outcome.value.errorType =
      (IF args.status[1] \in {429, 502, 503, 504} THEN "transient" ELSE "permanent")

C1_Witness ==
  /\ Classified
  /\ args.status = <<500>>
  /\ outcome.value.errorType = "permanent"

\* C2: with both a status and an underlying Error, the status alone decides:
\* the same status gives the same errorType whatever the Error's message; 503
\* with "invalid token" is transient, a non-transient status with a message
\* holding a transient substring is permanent.
C2_StatusWins ==
  (Classified /\ args.status # <<>> /\ args.error.class = "Error") =>
    /\ outcome.value.errorType =
         fromFetchError(args.message, ErrorValue(M_empty), args.status).errorType
    /\ (args.status = <<503>> /\ args.error.text = M_invalid_token)
         => outcome.value.errorType = "transient"
    /\ (args.status[1] \notin {429, 502, 503, 504}
          /\ args.error.text \in ExpectedTransientMessages)
         => outcome.value.errorType = "permanent"

C2_Witness ==
  /\ Classified
  /\ args.status = <<401>>
  /\ args.error = ErrorValue(S_timeout)
  /\ outcome.value.errorType = "permanent"

\* C3: with no status, fromFetchError gives transient exactly when the raw
\* value is an Error whose message, lower-cased, contains one of the seven
\* substrings; any other Error and any non-Error value gives permanent.
C3_MessageRule ==
  (Classified /\ args.status = <<>>) =>
    /\ (outcome.value.errorType = "transient") <=>
         (args.error.class = "Error" /\ args.error.text \in ExpectedTransientMessages)
    /\ (outcome.value.errorType = "transient") <=>
         (/\ args.error.class = "Error"
          /\ \E k \in 1..Len(TransientSubstrings) :
               includes(toLowerCase(args.error.text), TransientSubstrings[k]))
    /\ outcome.value.errorType \in ErrorTypes

C3_Witness ==
  /\ Classified
  /\ args.status = <<>>
  /\ args.error = ErrorValue(M_connectETIMEDOUT)
  /\ outcome.value.errorType = "transient"

\* C4: whenever getRepository, createPullRequest or generatePushAuth fails,
\* the value thrown to the caller is a SourceControlProviderError with an
\* errorType.
C4_FailuresAreClassified ==
  (pc = "done" /\ op \in ProviderOps /\ outcome.kind = "thrown") =>
    /\ outcome.value.class = "SourceControlProviderError"
    /\ outcome.value.errorType \in ErrorTypes

\* C5: once the creation request returned an OK response, createPullRequest
\* never throws and returns the pull-request result whatever the label and
\* reviewer calls do, and a failed label call is followed by the reviewer call
\* when reviewers were requested.
C5_BestEffortNeverFails ==
  (op = "createPullRequest" /\ Logged("pulls", "ok")) =>
    /\ outcome.kind # "thrown"
    /\ pc = "done" =>
         /\ outcome.kind = "returned"
         /\ outcome.value.class = "CreatePullRequestResult"
         /\ outcome.value.id = data.number
    /\ ((Logged("labels", "notOk") \/ Logged("labels", "threw"))
          /\ config.reviewers # <<>> /\ Len(config.reviewers[1]) > 0)
         => Logged("reviewers", "start")

C5_Witness ==
  /\ pc = "done"
  /\ op = "createPullRequest"
  /\ Logged("labels", "threw")
  /\ Logged("reviewers", "notOk")
  /\ outcome.kind = "returned"
  /\ warnings = 2

\* C6: fromFetchError sets httpStatus to the supplied status exactly when one
\* is supplied, and a non-OK response with status s received by getRepository,
\* createPullRequest or the token-minting call of generatePushAuth yields a
\* thrown error whose httpStatus is s and whose errorType follows the status
\* rule for s.
C6_HttpStatusCarried ==
  /\ Classified => outcome.value.httpStatus = args.status
  /\ (pc = "done" /\ op \in ProviderOps /\ origin # <<>>) =>
       /\ outcome.kind = "thrown"
       /\ outcome.value.class = "SourceControlProviderError"
       /\ outcome.value.httpStatus = origin
       /\ outcome.value.errorType =
            (IF origin[1] \in {429, 502, 503, 504} THEN "transient" ELSE "permanent")

\* C7: fromFetchError returns, for every message, raw value and status or
\* none, a SourceControlProviderError whose errorType is exactly one of
\* transient and permanent.
C7_DefiniteValue ==
  Classified =>
    /\ outcome.kind = "returned"
    /\ outcome.value.class = "SourceControlProviderError"
    /\ outcome.value.errorType \in ErrorTypes
    /\ outcome.value.message = args.message

C7_Witness ==
  /\ Classified
  /\ args.error = NullValue
  /\ args.status = <<>>
  /\ outcome.kind = "returned"
  /\ outcome.value.errorType = "permanent"

\* C8: in createPullRequest the label and reviewer calls start only after an
\* OK creation response (a non-OK one throws and neither is made), the label
\* call has ended before the reviewer call starts, and each is made only when
\* its list in the config is non-empty.
C8_CallOrder ==
  /\ \A i \in 1..Len(calls) :
       (calls[i].call \in {"labels", "reviewers"}) =>
         \E j \in 1..(i - 1) : calls[j] = Event("pulls", "ok")
  /\ (Logged("pulls", "notOk") \/ Logged("pulls", "threw")) =>
       /\ outcome.kind = "thrown"
       /\ ~ \E i \in 1..Len(calls) : calls[i].call \in {"labels", "reviewers"}
  /\ \A i \in 1..Len(calls) :
       (calls[i] = Event("reviewers", "start") /\ Logged("labels", "start")) =>
         \E j \in 1..(i - 1), k \in 1..(i - 1) :
           /\ j < k
           /\ calls[j] = Event("labels", "start")
           /\ calls[k].call = "labels" /\ calls[k].ev \in BestEffortKinds
  /\ Logged("labels", "start") => (config.labels # <<>> /\ Len(config.labels[1]) > 0)
  /\ Logged("reviewers", "start") =>
       (config.reviewers # <<>> /\ Len(config.reviewers[1]) > 0)

C8_Witness ==
  /\ pc = "done"
  /\ calls = <<Event("pulls", "start"), Event("pulls", "ok"),
               Event("labels", "start"), Event("labels", "notOk"),
               Event("reviewers", "start"), Event("reviewers", "ok")>>

\* C9: generatePushAuth without appConfig throws a permanent
\* SourceControlProviderError with no httpStatus and no cause and never calls
\* the minting function; with appConfig a minting failure is classified by
\* the message rule only, never with a status, and a success returns authType
\* app with the token.
C9_PushAuth ==
  (pc = "done" /\ op = "generatePushAuth") =>
    /\ ~appConfig =>
         /\ outcome.kind = "thrown"
         /\ outcome.value.class = "SourceControlProviderError"
         /\ outcome.value.errorType = "permanent"
         /\ outcome.value.httpStatus = <<>>
         /\ outcome.value.cause = <<>>
         /\ calls = <<>>
    /\ (appConfig /\ outcome.kind = "thrown") =>
         /\ outcome.value.class = "SourceControlProviderError"
         /\ outcome.value.httpStatus = <<>>
         /\ (outcome.value.errorType = "transient") <=>
              (/\ outcome.value.cause # <<>>
               /\ outcome.value.cause[1].text \in ExpectedTransientMessages)
         /\ outcome.value.errorType \in ErrorTypes
    /\ (appConfig /\ outcome.kind = "returned") =>
         /\ outcome.value.class = "GitPushAuthContext"
         /\ outcome.value.authType = "app"
         /\ outcome.value.token \in Tokens
         /\ Logged("installationToken", "ok")
    /\ appConfig => Logged("installationToken", "start")

C9_Witness ==
  /\ pc = "done"
  /\ op = "generatePushAuth"
  /\ appConfig
  /\ origin = <<401>>
  /\ outcome.kind = "thrown"
  /\ outcome.value.cause = <<ErrorValue(M_RequestTimeout)>>
  /\ outcome.value.errorType = "transient"

\* C10: the state createPullRequest returns is draft when draft is true, else
\* merged when merged is true, else open for state open, closed for state
\* closed and open for any other state; it is always one of the four.
C10_StatePrecedence ==
  (op = "createPullRequest" /\ outcome.kind = "returned") =>
    /\ data.draft => outcome.value.state = "draft"
    /\ (~data.draft /\ data.merged) => outcome.value.state = "merged"
    /\ (~data.draft /\ ~data.merged /\ data.state = "closed")
         => outcome.value.state = "closed"
    /\ (~data.draft /\ ~data.merged /\ data.state # "closed")
         => outcome.value.state = "open"
    /\ outcome.value.state \in {"draft", "merged", "open", "closed"}

C10_Witness ==
  /\ op = "createPullRequest"
  /\ outcome.kind = "returned"
  /\ data.draft /\ data.merged /\ data.state = "closed"
  /\ outcome.value.state = "draft"

====
